---- MODULE Spec2Model ----
(***************************************************************************)
(* Model of src/main.py (Arpeggio, a pygame virtual piano): the MIDI       *)
(* playback scheduler of the main loop, the space-bar transport handler,   *)
(* the key-press dispatcher and the four helper functions.                 *)
(*                                                                         *)
(* main.py is a template: midi_to_note_name, load_midi_file,               *)
(* find_first_note_after and play_note_with_limiter have a docstring and   *)
(* the body `pass`.  Each of them is modelled twice:                       *)
(*   - under its source name, as shipped (it does nothing and returns      *)
(*     None);                                                              *)
(*   - as Doc_<name>, the behaviour its docstring prescribes step by step. *)
(* Specification SpecShipped applies the shipped bodies to inputs drawn    *)
(* from bounded sets.  Spec and SpecKeys run the main loop with the        *)
(* Doc_ bodies, because with the shipped bodies no track is ever loaded    *)
(* and the scheduler code of the main loop is unreachable.                 *)
(*                                                                         *)
(* Times are integer milliseconds (the source accumulates float seconds    *)
(* and multiplies by 1000).  Indices are 0-based as in the source; TLA+    *)
(* sequences are 1-based, so msgs[i + 1] is Python's msgs[i].              *)
(* active_whites / active_blacks only feed draw_piano (the key flash) and  *)
(* are left out, like the rest of the rendering.                           *)
(***************************************************************************)
EXTENDS Integers, Sequences, FiniteSets, TLC

(***************************************************************************)
(* Bounds of the model.                                                    *)
(***************************************************************************)
\* pygame.time.get_ticks() is followed up to this value
MaxTicks == 3
\* number of mixer channels of the model (the source sets up 512)
NumChannels == 1
\* live triggers are cut off when g_active_channels has this length
MaxActive == 2
\* longest MIDI file, in messages
MaxMsgs == 3
\* longest track find_first_note_after is called on in SpecShipped
MaxTrack == 4

(***************************************************************************)
(* Program constants.                                                      *)
(***************************************************************************)
\* Python values a function returns: None, or Some(v) for an int or a bool
\* (a note name is its sequence of characters, never empty)
None == <<>>
Some(v) == <<v>>
Val(r) == r[1]
Truthy(r) == r # None /\ Val(r) = TRUE

\* NOTE_NAMES = ["C", "C#", "D", ...], each name a sequence of characters
NOTE_NAMES == << <<"C">>, <<"C", "#">>, <<"D">>, <<"D", "#">>, <<"E">>, <<"F">>,
                <<"F", "#">>, <<"G">>, <<"G", "#">>, <<"A">>, <<"A", "#">>, <<"B">> >>

LIMITER_THRESHOLD == 16

\* playback_start_time = 1000 * 60 * 2 + 15 * 1000
INITIAL_START_TIME == 1000 * 60 * 2 + 15 * 1000

\* the octave range the arrow-key handlers keep left_oct / right_oct in
MIN_OCT == 0
MAX_OCT == 8

\* velocity of a note played by hand (mouse or letter key)
MANUAL_VELOCITY == 127

(***************************************************************************)
(* Note names are sequences of characters, so that f"{note_name}{octave}"  *)
(* and name[1] == "#" are computed and not assumed.                        *)
(***************************************************************************)
DigitChars == <<"0", "1", "2", "3", "4", "5", "6", "7", "8", "9">>

RECURSIVE Digits(_)
Digits(n) == IF n < 10 THEN <<DigitChars[n + 1]>>
             ELSE Digits(n \div 10) \o <<DigitChars[(n % 10) + 1]>>

\* str(n) of a Python int
Str(n) == IF n < 0 THEN <<"-">> \o Digits(0 - n) ELSE Digits(n)

\* Python's floor division and modulo by 12 (defined for negative numbers too)
FloorDiv12(n) == IF n >= 0 THEN n \div 12 ELSE 0 - ((11 - n) \div 12)
Mod12(n) == n - 12 * FloorDiv12(n)

(***************************************************************************)
(* The note catalog (piano_lists.py): the 88 keys A0 .. C8, 52 white and   *)
(* 36 black, as draw_piano and draw_hands lay them out.                    *)
(***************************************************************************)
FIRST_KEY == 21
LAST_KEY == 108

KeyName(p) == NOTE_NAMES[(p % 12) + 1] \o Str((p \div 12) - 1)

IsSharp(p) == (p % 12) \in {1, 3, 6, 8, 10}

AllKeys == [i \in 1..(LAST_KEY - FIRST_KEY + 1) |-> FIRST_KEY + i - 1]

RECURSIVE MapNames(_)
MapNames(ps) == IF ps = <<>> THEN <<>>
                ELSE <<KeyName(Head(ps))>> \o MapNames(Tail(ps))

IsWhiteKey(p) == ~IsSharp(p)

white_notes == MapNames(SelectSeq(AllKeys, IsWhiteKey))
black_labels == MapNames(SelectSeq(AllKeys, IsSharp))

InSeq(s, x) == \E i \in 1..Len(s) : s[i] = x

\* list.index(x) for x in the list, 0-based
IndexOf(s, x) == (CHOOSE i \in 1..Len(s) : s[i] = x /\ \A j \in 1..(i - 1) : s[j] # x) - 1

(***************************************************************************)
(* The four functions as shipped: docstring, `# YOUR CODE HERE`, `pass`.   *)
(* A call returns None and changes nothing.                                *)
(*   g : the globals load_midi_file declares, [playback_messages,          *)
(*       current_msg_index, playback_active]                               *)
(*   m : the mixer and its tracking list, [channels (g_active_channels),   *)
(*       busy (the channels get_busy() is true for), out (what the step    *)
(*       printed or played)]                                               *)
(***************************************************************************)
\* mutant of midi_to_note_name: names every integer, with no range check
midi_to_note_name_Wrap(midi_num) ==
    NOTE_NAMES[Mod12(midi_num) + 1] \o Str(FloorDiv12(midi_num) - 1)

midi_to_note_name(midi_num) == None

load_midi_file(file, g) == [ret |-> None, g |-> g]

find_first_note_after(msgs, time_ms) == None

play_note_with_limiter(sound_to_play, velocity, m) == m

(***************************************************************************)
(* The four functions as their docstrings prescribe them.                  *)
(***************************************************************************)
\* steps 1-5 of the docstring of midi_to_note_name
Doc_midi_to_note_name(midi_num) ==
    IF midi_num < 0 \/ midi_num > 127 THEN None
    ELSE LET octave == FloorDiv12(midi_num) - 1
             note_index == Mod12(midi_num)
         IN  NOTE_NAMES[note_index + 1] \o Str(octave)

\* A file is [readable, msgs]: mido.MidiFile(filepath) raises when it is not
\* readable, and iterates over msgs otherwise.  A message is [type, time,
\* note, velocity], time the delta to the previous message (mido reads it
\* from a variable-length quantity: it is never negative).
BadFile == [readable |-> FALSE, msgs |-> <<>>]

\* mutant of DecodeFrom: the event carries the delta msg.time, not the
\* accumulated time
RECURSIVE DecodeFrom_NoAccumulate(_, _, _)
DecodeFrom_NoAccumulate(mid, current_time, acc) ==
    IF mid = <<>> THEN acc
    ELSE LET msg == Head(mid)
             note_name == Doc_midi_to_note_name(msg.note)
             emitted ==
                 IF msg.type = "note_on" /\ msg.velocity > 0
                 THEN IF InSeq(black_labels, note_name)
                      THEN <<<<msg.time, IndexOf(black_labels, note_name), "black", msg.velocity>>>>
                      ELSE IF InSeq(white_notes, note_name)
                      THEN <<<<msg.time, IndexOf(white_notes, note_name), "white", msg.velocity>>>>
                      ELSE <<>>
                 ELSE <<>>
         IN  DecodeFrom_NoAccumulate(Tail(mid), current_time, acc \o emitted)

\* mutant of DecodeFrom: every note_on is a trigger, whatever its velocity
RECURSIVE DecodeFrom_NoVelocityTest(_, _, _)
DecodeFrom_NoVelocityTest(mid, current_time, acc) ==
    IF mid = <<>> THEN acc
    ELSE LET msg == Head(mid)
             now == current_time + msg.time
             note_name == Doc_midi_to_note_name(msg.note)
             emitted ==
                 IF msg.type = "note_on"
                 THEN IF InSeq(black_labels, note_name)
                      THEN <<<<now, IndexOf(black_labels, note_name), "black", msg.velocity>>>>
                      ELSE IF InSeq(white_notes, note_name)
                      THEN <<<<now, IndexOf(white_notes, note_name), "white", msg.velocity>>>>
                      ELSE <<>>
                 ELSE <<>>
         IN  DecodeFrom_NoVelocityTest(Tail(mid), now, acc \o emitted)

\* steps 4-5 of the docstring of load_midi_file: the loop `for msg in mid`.
\* Times are whole milliseconds: msg.time stands for msg.time / 1000 seconds,
\* so current_time_sec * 1000 is the accumulated count.
RECURSIVE DecodeFrom(_, _, _)
DecodeFrom(mid, current_time, acc) ==
    IF mid = <<>> THEN acc
    ELSE LET msg == Head(mid)
             now == current_time + msg.time
             note_name == Doc_midi_to_note_name(msg.note)
             emitted ==
                 IF msg.type = "note_on" /\ msg.velocity > 0
                 THEN IF InSeq(black_labels, note_name)
                      THEN <<<<now, IndexOf(black_labels, note_name), "black", msg.velocity>>>>
                      ELSE IF InSeq(white_notes, note_name)
                      THEN <<<<now, IndexOf(white_notes, note_name), "white", msg.velocity>>>>
                      ELSE <<>>
                 ELSE <<>>
         IN  DecodeFrom(Tail(mid), now, acc \o emitted)

\* mutant of Doc_load_midi_file: the playback state is not reset
Doc_load_midi_file_NoReset(file, g) ==
    IF ~file.readable
    THEN [ret |-> Some(FALSE), g |-> g]
    ELSE [ret |-> Some(TRUE),
          g |-> [g EXCEPT !.playback_messages = DecodeFrom(file.msgs, 0, <<>>)]]

\* steps 1-8 of the docstring of load_midi_file
Doc_load_midi_file(file, g) ==
    IF ~file.readable
    THEN [ret |-> Some(FALSE), g |-> g]
    ELSE [ret |-> Some(TRUE),
          g |-> [playback_messages |-> DecodeFrom(file.msgs, 0, <<>>),
                 current_msg_index |-> 0,
                 playback_active |-> FALSE]]

\* steps 1-5 of the docstring of find_first_note_after
Doc_find_first_note_after(msgs, time_ms) ==
    IF msgs = <<>> THEN Some(0)
    ELSE IF \E i \in 1..Len(msgs) : msgs[i][1] >= time_ms
         THEN Some((CHOOSE i \in 1..Len(msgs) :
                       /\ msgs[i][1] >= time_ms
                       /\ \A j \in 1..(i - 1) : ~(msgs[j][1] >= time_ms)) - 1)
         ELSE Some(Len(msgs))

\* pygame.mixer.find_channel(): the first channel that is not busy, or None
Channels == 1..NumChannels

find_channel(busy) ==
    IF Channels \ busy = {} THEN None
    ELSE Some(CHOOSE c \in Channels \ busy : \A d \in Channels \ busy : c <= d)

\* Volumes are kept exact.  A fraction is <<numerator, denominator>> with a
\* positive denominator, and sqrt(ratio) is kept as its square, ratio.
BASE_NOTE_VOLUME == <<6, 10>>

\* mutant of LimiterFactorSq: the ratio is taken the wrong way round
LimiterFactorSq_Inverted(num_playing) ==
    IF num_playing > LIMITER_THRESHOLD
    THEN <<num_playing, LIMITER_THRESHOLD>>
    ELSE <<1, 1>>

\* step 2 of the docstring of play_note_with_limiter, the square of
\* limiter_factor: 1.0, or ratio = LIMITER_THRESHOLD / num_playing
LimiterFactorSq(num_playing) ==
    IF num_playing > LIMITER_THRESHOLD
    THEN <<LIMITER_THRESHOLD, num_playing>>
    ELSE <<1, 1>>

\* mutant of VelocityFactor: velocity is clamped to 0..127 before the division
VelocityFactor_Clamped(velocity) ==
    <<IF velocity < 0 THEN 0 ELSE IF velocity > 127 THEN 127 ELSE velocity, 127>>

\* step 3: velocity / 127.0
VelocityFactor(velocity) == <<velocity, 127>>

\* step 4: final_volume = (BASE_NOTE_VOLUME * limiter_factor) * velocity_factor,
\* kept as its three factors
FinalVolume(num_playing, velocity) ==
    [base |-> BASE_NOTE_VOLUME,
     limiter_sq |-> LimiterFactorSq(num_playing),
     velocity_factor |-> VelocityFactor(velocity)]

\* mutant of Doc_play_note_with_limiter: the call first drops the channels
\* that have ended from the tracking list, and counts the rest
Doc_play_note_with_limiter_Sweeps(sound_to_play, velocity, m) ==
    LET IsBusy(c) == c \in m.busy
        swept == SelectSeq(m.channels, IsBusy)
        num_playing == Len(swept)
        final_volume == FinalVolume(num_playing, velocity)
        channel == find_channel(m.busy)
    IN  IF channel # None
        THEN [channels |-> Append(swept, Val(channel)),
              busy |-> m.busy \cup {Val(channel)},
              out |-> Append(m.out, [ev |-> "play", sound |-> sound_to_play,
                                     velocity |-> velocity, num_playing |-> num_playing,
                                     volume |-> final_volume,
                                     channel |-> Val(channel)])]
        ELSE [channels |-> swept, busy |-> m.busy,
              out |-> Append(m.out, [ev |-> "warning", sound |-> sound_to_play])]

\* steps 1-7 of the docstring of play_note_with_limiter
Doc_play_note_with_limiter(sound_to_play, velocity, m) ==
    LET num_playing == Len(m.channels)
        final_volume == FinalVolume(num_playing, velocity)
        channel == find_channel(m.busy)
    IN  IF channel # None
        THEN [channels |-> Append(m.channels, Val(channel)),
              busy |-> m.busy \cup {Val(channel)},
              out |-> Append(m.out, [ev |-> "play", sound |-> sound_to_play,
                                     velocity |-> velocity, num_playing |-> num_playing,
                                     volume |-> final_volume,
                                     channel |-> Val(channel)])]
        ELSE [m EXCEPT !.out = Append(m.out, [ev |-> "warning", sound |-> sound_to_play])]

(***************************************************************************)
(* State of the program (the module-level variables of main.py), the       *)
(* clock and the mixer of pygame, and two history variables.               *)
(***************************************************************************)
VARIABLES
    ticks,                \* the value the last call of pygame.time.get_ticks() returned, ms
    busy,                 \* the mixer channels that are playing
    playback_messages,    \* the loaded track: <<time_ms, index, note_type, velocity>>
    playback_start_time,
    current_msg_index,
    playback_active,
    midi_loaded,
    left_oct,
    right_oct,
    g_active_channels,
    run,                  \* "running", "quit" (run = False) or "crashed" (uncaught exception)
    last,                 \* history: what the last handler did
    hist                  \* history: the pending seek, the clock of the last frame, the
                          \* last now_ms computed and the indices of the events
                          \* triggered since playback was started

vars == <<ticks, busy, playback_messages, playback_start_time, current_msg_index,
          playback_active, midi_loaded, left_oct, right_oct, g_active_channels,
          run, last, hist>>

Init ==
    /\ ticks = 0
    /\ busy = {}
    /\ playback_messages = <<>>
    /\ playback_start_time = INITIAL_START_TIME
    /\ current_msg_index = 0
    /\ playback_active = FALSE
    /\ midi_loaded = FALSE
    /\ left_oct = 4
    /\ right_oct = 5
    /\ g_active_channels = <<>>
    /\ run = "running"
    /\ last = [op |-> "init"]
    /\ hist = [seek |-> None, frame_at |-> None, pos |-> None, trig |-> <<>>]

\* the mixer record the trigger functions work on
Mixer == [channels |-> g_active_channels, busy |-> busy, out |-> <<>>]

(***************************************************************************)
(* One iteration of `while run:` up to the event loop: the channel sweep   *)
(* and the MIDI PLAYBACK LOGIC.                                            *)
(***************************************************************************)
\* g_active_channels = [ch for ch in g_active_channels if ch.get_busy()]
SweepChannels(channels, b) ==
    LET IsBusy(c) == c \in b IN SelectSeq(channels, IsBusy)

\* mutant of IsDue: the comparison looks one millisecond ahead
IsDue_LookAhead(now_ms, msg_time_ms) == now_ms + 1 >= msg_time_ms

\* if now_ms >= msg_time_ms
IsDue(now_ms, msg_time_ms) == now_ms >= msg_time_ms

\* sound_to_play = black_sounds[index] / white_sounds[index]
SoundOf(note_type, index) == <<note_type, index>>

\* mutant of PlaybackLoop: `current_msg_index += 1` is missing, the loop
\* leaves after the first trigger
PlaybackLoop_NoIncrement(msgs, now_ms, st) ==
    IF st.idx < Len(msgs) /\ IsDue(now_ms, msgs[st.idx + 1][1])
    THEN [idx |-> st.idx,
          m |-> Doc_play_note_with_limiter(
                    SoundOf(msgs[st.idx + 1][3], msgs[st.idx + 1][2]), msgs[st.idx + 1][4], st.m),
          fired |-> Append(st.fired, st.idx)]
    ELSE st

\* mutant of PlaybackLoop: an `if` for the `while`, one trigger per frame
PlaybackLoop_OneEvent(msgs, now_ms, st) ==
    IF st.idx < Len(msgs) /\ IsDue(now_ms, msgs[st.idx + 1][1])
    THEN [idx |-> st.idx + 1,
          m |-> Doc_play_note_with_limiter(
                    SoundOf(msgs[st.idx + 1][3], msgs[st.idx + 1][2]), msgs[st.idx + 1][4], st.m),
          fired |-> Append(st.fired, st.idx)]
    ELSE st

\* mutant of PlaybackLoop: an event whose note was dropped is left at the
\* cursor for a later frame
RECURSIVE PlaybackLoop_RetryDropped(_, _, _)
PlaybackLoop_RetryDropped(msgs, now_ms, st) ==
    IF st.idx < Len(msgs)
    THEN LET msg == msgs[st.idx + 1]
             played == Doc_play_note_with_limiter(SoundOf(msg[3], msg[2]), msg[4], st.m)
         IN  IF IsDue(now_ms, msg[1])
             THEN IF find_channel(st.m.busy) = None
                  THEN [idx |-> st.idx, m |-> played, fired |-> Append(st.fired, st.idx)]
                  ELSE PlaybackLoop_RetryDropped(msgs, now_ms,
                           [idx |-> st.idx + 1, m |-> played,
                            fired |-> Append(st.fired, st.idx)])
             ELSE st
    ELSE st

\* the inner `while current_msg_index < len(playback_messages)` loop;
\* st = [idx (current_msg_index), m (mixer), fired (the indices triggered)]
RECURSIVE PlaybackLoop(_, _, _)
PlaybackLoop(msgs, now_ms, st) ==
    IF st.idx < Len(msgs)
    THEN LET msg == msgs[st.idx + 1]
         IN  IF IsDue(now_ms, msg[1])
             THEN PlaybackLoop(msgs, now_ms,
                      [idx |-> st.idx + 1,
                       m |-> Doc_play_note_with_limiter(SoundOf(msg[3], msg[2]), msg[4], st.m),
                       fired |-> Append(st.fired, st.idx)])
             ELSE st
    ELSE st

\* mutant of PlaybackFinished: > for >=
PlaybackFinished_OffByOne(idx, msgs) == idx > Len(msgs)

\* if current_msg_index >= len(playback_messages): the playback finished branch
PlaybackFinished(idx, msgs) == idx >= Len(msgs)

\* The clock is read only inside `if playback_active and ...`: the time that
\* passed since the last reading is the dt of the reading.
FrameTick ==
    /\ run = "running"
    /\ \E dt \in (IF playback_active /\ current_msg_index < Len(playback_messages)
                 THEN 0..(MaxTicks - ticks) ELSE {0}) :
        LET ran == playback_active /\ current_msg_index < Len(playback_messages)
            now == ticks + dt
            swept == [channels |-> SweepChannels(g_active_channels, busy),
                      busy |-> busy, out |-> <<>>]
            now_ms == now - playback_start_time
            st == IF ran
                  THEN PlaybackLoop(playback_messages, now_ms,
                           [idx |-> current_msg_index, m |-> swept, fired |-> <<>>])
                  ELSE [idx |-> current_msg_index, m |-> swept, fired |-> <<>>]
            finished == ran /\ PlaybackFinished(st.idx, playback_messages)
        IN  /\ ticks' = now
            /\ g_active_channels' = st.m.channels
            /\ busy' = st.m.busy
            /\ current_msg_index' = st.idx
            /\ playback_active' = IF finished THEN FALSE ELSE playback_active
            /\ playback_start_time' = IF finished THEN 0 ELSE playback_start_time
            /\ last' = [op |-> "frame", ran |-> ran, now_ms |-> now_ms,
                        anchor |-> playback_start_time,
                        from |-> current_msg_index, fired |-> st.fired,
                        out |-> IF finished
                                THEN Append(st.m.out, [ev |-> "print", text |-> "Playback finished."])
                                ELSE st.m.out,
                        seek |-> hist.seek,
                        repeat |-> hist.frame_at = Some(now)]
            /\ hist' = [seek |-> IF ran THEN None ELSE hist.seek,
                        frame_at |-> Some(now),
                        pos |-> IF ran THEN Some(now_ms) ELSE hist.pos,
                        trig |-> hist.trig \o st.fired]
    /\ UNCHANGED <<playback_messages, midi_loaded, left_oct, right_oct, run>>

\* a sound ends: the mixer marks its channel free (no callback to the program)
VoiceEnds ==
    /\ run = "running"
    /\ \E c \in busy : busy' = busy \ {c}
    /\ UNCHANGED <<ticks, playback_messages, playback_start_time, current_msg_index,
                   playback_active, midi_loaded, left_oct, right_oct,
                   g_active_channels, run, last, hist>>

(***************************************************************************)
(* The event loop: one action per handled event.                           *)
(***************************************************************************)
\* mutant of TogglePlayback: a start rewinds to the first event instead of
\* seeking to START_MS
TogglePlayback_Rewind(t, now) ==
    IF ~t.playback_active
    THEN IF t.current_msg_index = 0 \/ t.current_msg_index >= Len(t.playback_messages)
         THEN [t |-> [t EXCEPT !.playback_active = TRUE,
                               !.current_msg_index = 0,
                               !.playback_start_time = now - t.playback_start_time],
               branch |-> "start", target |-> Some(t.playback_start_time)]
         ELSE [t |-> [t EXCEPT !.playback_active = TRUE,
                               !.playback_start_time =
                                   now - t.playback_messages[t.current_msg_index + 1][1]],
               branch |-> "resume", target |-> None]
    ELSE [t |-> [t EXCEPT !.playback_active = FALSE], branch |-> "pause", target |-> None]

\* mutant of TogglePlayback: pausing rewinds the cursor
TogglePlayback_PauseRewinds(t, now) ==
    IF ~t.playback_active
    THEN IF t.current_msg_index = 0 \/ t.current_msg_index >= Len(t.playback_messages)
         THEN LET START_MS == t.playback_start_time
              IN  [t |-> [t EXCEPT !.playback_active = TRUE,
                                   !.current_msg_index =
                                       Val(Doc_find_first_note_after(t.playback_messages, START_MS)),
                                   !.playback_start_time = now - START_MS],
                   branch |-> "start", target |-> Some(START_MS)]
         ELSE LET msg_time_ms_to_resume_at == t.playback_messages[t.current_msg_index + 1][1]
              IN  [t |-> [t EXCEPT !.playback_active = TRUE,
                                   !.playback_start_time = now - msg_time_ms_to_resume_at],
                   branch |-> "resume", target |-> None]
    ELSE [t |-> [t EXCEPT !.playback_active = FALSE, !.current_msg_index = 0],
          branch |-> "pause", target |-> None]

\* mutant of TogglePlayback: resuming keeps the start time it finds
TogglePlayback_ResumeKeepsAnchor(t, now) ==
    IF ~t.playback_active
    THEN IF t.current_msg_index = 0 \/ t.current_msg_index >= Len(t.playback_messages)
         THEN LET START_MS == t.playback_start_time
              IN  [t |-> [t EXCEPT !.playback_active = TRUE,
                                   !.current_msg_index =
                                       Val(Doc_find_first_note_after(t.playback_messages, START_MS)),
                                   !.playback_start_time = now - START_MS],
                   branch |-> "start", target |-> Some(START_MS)]
         ELSE [t |-> [t EXCEPT !.playback_active = TRUE],
               branch |-> "resume", target |-> None]
    ELSE [t |-> [t EXCEPT !.playback_active = FALSE], branch |-> "pause", target |-> None]

\* K_SPACE, `if midi_loaded:` : toggle play / pause / restart.
\* t = [playback_messages, current_msg_index, playback_active,
\*      playback_start_time, midi_loaded]; now = pygame.time.get_ticks()
TogglePlayback(t, now) ==
    IF ~t.playback_active
    THEN IF t.current_msg_index = 0 \/ t.current_msg_index >= Len(t.playback_messages)
         THEN \* Starting fresh or restarting
              LET START_MS == t.playback_start_time
              IN  [t |-> [t EXCEPT !.playback_active = TRUE,
                                   !.current_msg_index =
                                       Val(Doc_find_first_note_after(t.playback_messages, START_MS)),
                                   !.playback_start_time = now - START_MS],
                   branch |-> "start", target |-> Some(START_MS)]
         ELSE \* Resuming from pause
              LET msg_time_ms_to_resume_at == t.playback_messages[t.current_msg_index + 1][1]
              IN  [t |-> [t EXCEPT !.playback_active = TRUE,
                                   !.playback_start_time = now - msg_time_ms_to_resume_at],
                   branch |-> "resume", target |-> None]
    ELSE \* Pause playback
         [t |-> [t EXCEPT !.playback_active = FALSE], branch |-> "pause", target |-> None]

\* mutant of SpaceHandler: the result of load_midi_file is not tested
SpaceHandler_IgnoreResult(file, t, now) ==
    IF ~t.midi_loaded
    THEN LET r == Doc_load_midi_file(file,
                      [playback_messages |-> t.playback_messages,
                       current_msg_index |-> t.current_msg_index,
                       playback_active |-> t.playback_active])
             tg == TogglePlayback(
                       [t EXCEPT !.playback_messages = r.g.playback_messages,
                                 !.current_msg_index = r.g.current_msg_index,
                                 !.playback_active = r.g.playback_active,
                                 !.midi_loaded = TRUE], now)
         IN  [t |-> tg.t, branch |-> tg.branch, target |-> tg.target,
              load |-> IF Truthy(r.ret) THEN "loaded" ELSE "failed", ret |-> r.ret]
    ELSE LET tg == TogglePlayback(t, now)
         IN  [t |-> tg.t, branch |-> tg.branch, target |-> tg.target,
              load |-> "none", ret |-> None]

\* K_SPACE: load the MIDI file on the first press, then toggle
SpaceHandler(file, t, now) ==
    IF ~t.midi_loaded
    THEN LET r == Doc_load_midi_file(file,
                      [playback_messages |-> t.playback_messages,
                       current_msg_index |-> t.current_msg_index,
                       playback_active |-> t.playback_active])
             t1 == [t EXCEPT !.playback_messages = r.g.playback_messages,
                             !.current_msg_index = r.g.current_msg_index,
                             !.playback_active = r.g.playback_active]
         IN  IF Truthy(r.ret)
             THEN LET tg == TogglePlayback([t1 EXCEPT !.midi_loaded = TRUE], now)
                  IN  [t |-> tg.t, branch |-> tg.branch, target |-> tg.target,
                       load |-> "loaded", ret |-> r.ret]
             ELSE \* print("Could not load ..."); continue
                  [t |-> t1, branch |-> "none", target |-> None,
                   load |-> "failed", ret |-> r.ret]
    ELSE LET tg == TogglePlayback(t, now)
         IN  [t |-> tg.t, branch |-> tg.branch, target |-> tg.target,
              load |-> "none", ret |-> None]

\* the files the path midi_file_path may hold when the space bar is pressed
DeltaSet == {0, 1, INITIAL_START_TIME - 1}

Messages == [type : {"note_on", "note_off"}, time : DeltaSet, note : {60}, velocity : {100}]

RECURSIVE SeqsUpTo(_, _)
SeqsUpTo(S, n) ==
    IF n = 0 THEN {<<>>}
    ELSE LET shorter == SeqsUpTo(S, n - 1)
         IN  shorter \cup {Append(q, x) : q \in {r \in shorter : Len(r) = n - 1}, x \in S}

MidiFiles == {[readable |-> TRUE, msgs |-> q] : q \in SeqsUpTo(Messages, MaxMsgs)} \cup {BadFile}

Transport == [playback_messages |-> playback_messages,
              current_msg_index |-> current_msg_index,
              playback_active |-> playback_active,
              playback_start_time |-> playback_start_time,
              midi_loaded |-> midi_loaded]

KeySpace ==
    /\ run = "running"
    /\ \E file \in (IF midi_loaded THEN {BadFile} ELSE MidiFiles), dt \in 0..(MaxTicks - ticks) :
        LET now == ticks + dt
            h == SpaceHandler(file, Transport, now)
        IN  /\ ticks' = now
            /\ playback_messages' = h.t.playback_messages
            /\ current_msg_index' = h.t.current_msg_index
            /\ playback_active' = h.t.playback_active
            /\ playback_start_time' = h.t.playback_start_time
            /\ midi_loaded' = h.t.midi_loaded
            /\ last' = [op |-> "space", branch |-> h.branch, load |-> h.load,
                        ret |-> h.ret, from |-> current_msg_index]
            /\ hist' = [seek |-> h.target, frame_at |-> None,
                        pos |-> IF h.branch = "start" THEN None ELSE hist.pos,
                        trig |-> IF h.branch = "start" THEN <<>> ELSE hist.trig]
    /\ UNCHANGED <<busy, left_oct, right_oct, g_active_channels, run>>

\* MOUSEBUTTONDOWN: the click hits at most one black key and one white key
\* (a black key lies over a white one); hit = [black, white], each None or
\* Some(index)
MouseHandler(hit, m) ==
    IF hit.black # None
    THEN Doc_play_note_with_limiter(SoundOf("black", Val(hit.black)), MANUAL_VELOCITY, m)
    ELSE IF hit.white # None
    THEN Doc_play_note_with_limiter(SoundOf("white", Val(hit.white)), MANUAL_VELOCITY, m)
    ELSE m

MouseHits == {[black |-> Some(0), white |-> Some(0)],
              [black |-> None, white |-> Some(1)],
              [black |-> None, white |-> None]}

MouseDown ==
    /\ run = "running"
    /\ Len(g_active_channels) < MaxActive
    /\ \E hit \in MouseHits :
        LET m == MouseHandler(hit, Mixer)
        IN  /\ g_active_channels' = m.channels
            /\ busy' = m.busy
            /\ last' = [op |-> "mouse", hit |-> hit, out |-> m.out,
                        tracked |-> Len(g_active_channels),
                        sounding |-> Len(SweepChannels(g_active_channels, busy))]
    /\ UNCHANGED <<ticks, playback_messages, playback_start_time, current_msg_index,
                   playback_active, midi_loaded, left_oct, right_oct, run, hist>>

\* left_dict / right_dict, rebuilt at the top of every iteration of the main
\* loop: letter -> f"{note}{octave}"
LEFT_LETTERS == <<"Z", "S", "X", "D", "C", "V", "G", "B", "H", "N", "J", "M">>
RIGHT_LETTERS == <<"R", "5", "T", "6", "Y", "U", "8", "I", "9", "O", "0", "P">>

InDict(letters, text) == InSeq(letters, text)
DictLookup(letters, oct, text) == NOTE_NAMES[IndexOf(letters, text) + 1] \o Str(oct)

\* one `if event.text.upper() in <dict>:` block of the TEXTINPUT handler;
\* k = [m (mixer), raised (an exception left the handler)]
HandBlock(letters, oct, text, k) ==
    IF k.raised \/ ~InDict(letters, text) THEN k
    ELSE LET name == DictLookup(letters, oct, text)
         IN  IF name[2] = "#"
             THEN IF InSeq(black_labels, name)
                  THEN [k EXCEPT !.m = Doc_play_note_with_limiter(
                                          SoundOf("black", IndexOf(black_labels, name)),
                                          MANUAL_VELOCITY, k.m)]
                  ELSE \* black_labels.index(name) raises ValueError
                       [k EXCEPT !.raised = TRUE]
             ELSE IF InSeq(white_notes, name)
                  THEN [k EXCEPT !.m = Doc_play_note_with_limiter(
                                          SoundOf("white", IndexOf(white_notes, name)),
                                          MANUAL_VELOCITY, k.m)]
                  ELSE \* white_notes.index(name) raises ValueError
                       [k EXCEPT !.raised = TRUE]

TextHandler(text, loct, roct, m) ==
    HandBlock(RIGHT_LETTERS, roct, text,
        HandBlock(LEFT_LETTERS, loct, text, [m |-> m, raised |-> FALSE]))

\* the letters typed: C, C#, A, A#, B of the left hand, C, C#, B of the right
\* hand, and a letter that is in neither dict
TextInputs == {"Z", "S", "N", "J", "M", "R", "5", "P", "Q"}

TextInput ==
    /\ run = "running"
    /\ Len(g_active_channels) < MaxActive
    /\ \E text \in TextInputs :
        LET k == TextHandler(text, left_oct, right_oct, Mixer)
        IN  /\ g_active_channels' = k.m.channels
            /\ busy' = k.m.busy
            /\ run' = IF k.raised THEN "crashed" ELSE run
            /\ last' = [op |-> "text", text |-> text, out |-> k.m.out, raised |-> k.raised]
    /\ UNCHANGED <<ticks, playback_messages, playback_start_time, current_msg_index,
                   playback_active, midi_loaded, left_oct, right_oct, hist>>

\* mutant of ArrowHandler: the octaves are shifted without the tests against
\* 8 and 0
ArrowHandler_NoClamp(key, o) ==
    CASE key = "K_RIGHT" -> [o EXCEPT !.right_oct = @ + 1]
      [] key = "K_LEFT"  -> [o EXCEPT !.right_oct = @ - 1]
      [] key = "K_UP"    -> [o EXCEPT !.left_oct = @ + 1]
      [] key = "K_DOWN"  -> [o EXCEPT !.left_oct = @ - 1]

\* K_RIGHT / K_LEFT / K_UP / K_DOWN; o = [left_oct, right_oct]
ArrowHandler(key, o) ==
    CASE key = "K_RIGHT" -> IF o.right_oct < MAX_OCT THEN [o EXCEPT !.right_oct = @ + 1] ELSE o
      [] key = "K_LEFT"  -> IF o.right_oct > MIN_OCT THEN [o EXCEPT !.right_oct = @ - 1] ELSE o
      [] key = "K_UP"    -> IF o.left_oct < MAX_OCT THEN [o EXCEPT !.left_oct = @ + 1] ELSE o
      [] key = "K_DOWN"  -> IF o.left_oct > MIN_OCT THEN [o EXCEPT !.left_oct = @ - 1] ELSE o

KeyArrow ==
    /\ run = "running"
    /\ \E key \in {"K_RIGHT", "K_LEFT", "K_UP", "K_DOWN"} :
        LET o == ArrowHandler(key, [left_oct |-> left_oct, right_oct |-> right_oct])
        IN  /\ left_oct' = o.left_oct
            /\ right_oct' = o.right_oct
            /\ last' = [op |-> "arrow", key |-> key,
                        moved |-> (o.left_oct # left_oct \/ o.right_oct # right_oct)]
    /\ UNCHANGED <<ticks, busy, playback_messages, playback_start_time, current_msg_index,
                   playback_active, midi_loaded, g_active_channels, run, hist>>

\* pygame.QUIT: run = False
Quit ==
    /\ run = "running"
    /\ run' = "quit"
    /\ last' = [op |-> "quit"]
    /\ UNCHANGED <<ticks, busy, playback_messages, playback_start_time, current_msg_index,
                   playback_active, midi_loaded, left_oct, right_oct, g_active_channels, hist>>

(***************************************************************************)
(* Specifications.  The letter keys, the arrows and the mouse touch only   *)
(* the octaves and the mixer; the space bar touches only the transport.    *)
(* Spec follows the transport and the scheduler (which triggers through    *)
(* the same mixer), SpecKeys the live input.                               *)
(***************************************************************************)
Next == FrameTick \/ KeySpace \/ VoiceEnds

Spec == Init /\ [][Next]_vars

\* The main loop runs a frame per iteration for as long as `run` holds (timer.tick),
\* and pygame's clock advances between frames: a frame that reads a later
\* clock value keeps being taken (up to the bound MaxTicks of the model), and
\* so does a frame that has something to do.
SpecFair ==
    /\ Init /\ [][Next]_vars
    /\ WF_vars(FrameTick)
    /\ WF_vars(FrameTick /\ ticks' > ticks)

NextKeys == FrameTick \/ MouseDown \/ TextInput \/ KeyArrow \/ VoiceEnds \/ Quit

SpecKeys == Init /\ [][NextKeys]_vars

(***************************************************************************)
(* SpecShipped: the four functions as shipped, each called on inputs drawn *)
(* from bounded sets (the track, the mixer and the tracking list are the   *)
(* globals the functions read), one call per behaviour.                    *)
(***************************************************************************)
\* the times of the docstring's example, [1000, 2000, 3000, 4000]
TrackTimes == {1000, 2000, 3000, 4000}

IsSorted(q) == \A i, j \in 1..Len(q) : i < j => q[i] <= q[j]

TrackInputs ==
    {[i \in 1..Len(q) |-> <<q[i], 0, "white", 100>>] :
        q \in {r \in SeqsUpTo(TrackTimes, MaxTrack) : IsSorted(r)}}

QueryTimes == {0, 1000, 2500, 4000, 5000}

\* 0..127 are the pitches of MIDI; the others are out of range
PitchInputs == {-13, -1} \cup (0..127) \cup {128, 140}

\* numbers of tracked voices on both sides of LIMITER_THRESHOLD
LimiterCounts == {8, LIMITER_THRESHOLD, LIMITER_THRESHOLD + 1, 2 * LIMITER_THRESHOLD}

ActiveInputs ==
    SeqsUpTo(Channels, MaxActive) \cup {[i \in 1..n |-> 1] : n \in LimiterCounts}

InitShipped ==
    /\ ticks = 0
    /\ busy \in SUBSET Channels
    /\ playback_messages \in TrackInputs
    /\ playback_start_time = INITIAL_START_TIME
    /\ current_msg_index = 0
    /\ playback_active = FALSE
    /\ midi_loaded = FALSE
    /\ left_oct = 4
    /\ right_oct = 5
    /\ g_active_channels \in ActiveInputs
    /\ run = "running"
    /\ last = [op |-> "init"]
    /\ hist = [seek |-> None, frame_at |-> None, pos |-> None, trig |-> <<>>]

CallMidiToNoteName ==
    /\ last.op = "init"
    /\ \E midi_num \in PitchInputs :
        last' = [op |-> "midi_to_note_name", arg |-> midi_num,
                 ret |-> midi_to_note_name(midi_num)]
    /\ UNCHANGED <<ticks, busy, playback_messages, playback_start_time, current_msg_index,
                   playback_active, midi_loaded, left_oct, right_oct, g_active_channels,
                   run, hist>>

CallFindFirstNoteAfter ==
    /\ last.op = "init"
    /\ \E time_ms \in QueryTimes :
        last' = [op |-> "find_first_note_after", arg |-> time_ms,
                 ret |-> find_first_note_after(playback_messages, time_ms)]
    /\ UNCHANGED <<ticks, busy, playback_messages, playback_start_time, current_msg_index,
                   playback_active, midi_loaded, left_oct, right_oct, g_active_channels,
                   run, hist>>

CallPlayNoteWithLimiter ==
    /\ last.op = "init"
    /\ \E velocity \in {1, 64, 127} :
        LET m == play_note_with_limiter(SoundOf("white", 0), velocity, Mixer)
        IN  /\ g_active_channels' = m.channels
            /\ busy' = m.busy
            /\ last' = [op |-> "play_note_with_limiter", velocity |-> velocity,
                        full |-> find_channel(busy) = None,
                        size_before |-> Len(g_active_channels), out |-> m.out]
    /\ UNCHANGED <<ticks, playback_messages, playback_start_time, current_msg_index,
                   playback_active, midi_loaded, left_oct, right_oct, run, hist>>

CallLoadMidiFile ==
    /\ last.op = "init"
    /\ \E file \in MidiFiles :
        LET r == load_midi_file(file, [playback_messages |-> playback_messages,
                                       current_msg_index |-> current_msg_index,
                                       playback_active |-> playback_active])
        IN  /\ playback_messages' = r.g.playback_messages
            /\ current_msg_index' = r.g.current_msg_index
            /\ playback_active' = r.g.playback_active
            /\ last' = [op |-> "load_midi_file", readable |-> file.readable, ret |-> r.ret]
    /\ UNCHANGED <<ticks, busy, playback_start_time, midi_loaded, left_oct, right_oct,
                   g_active_channels, run, hist>>

NextShipped ==
    CallMidiToNoteName \/ CallFindFirstNoteAfter \/ CallPlayNoteWithLimiter \/ CallLoadMidiFile

SpecShipped == InitShipped /\ [][NextShipped]_vars

(***************************************************************************)
(* The functions load_midi_file and play_note_with_limiter as their        *)
(* docstrings prescribe them, called once on drawn inputs.  The main loop  *)
(* calls load_midi_file only with the cursor at 0 and playback inactive;   *)
(* here the call is made from every playback state.                        *)
(***************************************************************************)
DocTracks == {t \in TrackInputs : Len(t) <= 2}

\* messages of a file handed to load_midi_file: note_on with velocity 0,
\* another message type, pitches below and above the 88 keys, a sharp
DocMaxMsgs == 2

DocNotes == {<<60, 100>>, <<60, 0>>, <<61, 100>>, <<FIRST_KEY - 1, 100>>, <<LAST_KEY + 1, 100>>}

DocMessages ==
    {[type |-> ty, time |-> t, note |-> nv[1], velocity |-> nv[2]] :
        ty \in {"note_on", "note_off"}, t \in {0, 1}, nv \in DocNotes}

DocFiles ==
    {[readable |-> TRUE, msgs |-> q] : q \in SeqsUpTo(DocMessages, DocMaxMsgs)} \cup {BadFile}

\* the range the docstring of play_note_with_limiter gives for velocity
VelocityInputs == {0, 1, 64, 127}

\* velocity is an int parameter: values outside that range
VelocityOutside == {-1, 128, 254}

\* either the mixer is drawn and the playback state is the initial one, or
\* the playback state is drawn and the mixer is the initial one
InitDoc ==
    /\ ticks = 0
    /\ \/ /\ busy \in SUBSET Channels
          /\ g_active_channels \in ActiveInputs
          /\ playback_messages = <<>>
          /\ current_msg_index = 0
          /\ playback_active = FALSE
       \/ /\ busy = {}
          /\ g_active_channels = <<>>
          /\ playback_messages \in DocTracks
          /\ current_msg_index \in 0..Len(playback_messages)
          /\ playback_active \in BOOLEAN
    /\ playback_start_time = INITIAL_START_TIME
    /\ midi_loaded = FALSE
    /\ left_oct = 4
    /\ right_oct = 5
    /\ run = "running"
    /\ last = [op |-> "init"]
    /\ hist = [seek |-> None, frame_at |-> None, pos |-> None, trig |-> <<>>]

CallDocPlayNoteWithLimiter ==
    /\ last.op = "init"
    /\ \E velocity \in VelocityInputs \cup VelocityOutside :
        LET m == Doc_play_note_with_limiter(SoundOf("white", 0), velocity, Mixer)
        IN  /\ g_active_channels' = m.channels
            /\ busy' = m.busy
            /\ last' = [op |-> "Doc_play_note_with_limiter", velocity |-> velocity,
                        full |-> find_channel(busy) = None,
                        size_before |-> Len(g_active_channels), out |-> m.out]
    /\ UNCHANGED <<ticks, playback_messages, playback_start_time, current_msg_index,
                   playback_active, midi_loaded, left_oct, right_oct, run, hist>>

CallDocLoadMidiFile ==
    /\ last.op = "init"
    /\ \E file \in DocFiles :
        LET r == Doc_load_midi_file(file, [playback_messages |-> playback_messages,
                                           current_msg_index |-> current_msg_index,
                                           playback_active |-> playback_active])
        IN  /\ playback_messages' = r.g.playback_messages
            /\ current_msg_index' = r.g.current_msg_index
            /\ playback_active' = r.g.playback_active
            /\ last' = [op |-> "Doc_load_midi_file", readable |-> file.readable,
                        msgs |-> file.msgs, ret |-> r.ret,
                        from |-> [current_msg_index |-> current_msg_index,
                                  playback_active |-> playback_active]]
    /\ UNCHANGED <<ticks, busy, playback_start_time, midi_loaded, left_oct, right_oct,
                   g_active_channels, run, hist>>

NextDoc == CallDocPlayNoteWithLimiter \/ CallDocLoadMidiFile

SpecDoc == InitDoc /\ [][NextDoc]_vars

(***************************************************************************)
(* Properties of the scheduler and the transport (Spec).                   *)
(***************************************************************************)
TimeAt(i) == playback_messages[i + 1][1]

\* the smallest 0-based index whose time is >= time_ms, or the track length
LeastIndexAtOrAfter(msgs, time_ms) ==
    LET hits == {i \in 0..(Len(msgs) - 1) : msgs[i + 1][1] >= time_ms}
    IN  IF hits = {} THEN Len(msgs)
        ELSE CHOOSE i \in hits : \A j \in hits : i <= j

FiredSet == {last.fired[k] : k \in 1..Len(last.fired)}

Printed(text) == \E k \in 1..Len(last.out) : last.out[k] = [ev |-> "print", text |-> text]

AllWithinClock ==
    \A i \in current_msg_index..(Len(playback_messages) - 1) :
        TimeAt(i) <= MaxTicks - playback_start_time

C3_FindFirstNoteAfter ==
    (last.op = "find_first_note_after") =>
        last.ret = Some(LeastIndexAtOrAfter(playback_messages, last.arg))

\* C7: when the mixer has no free channel, play_note_with_limiter plays
\* nothing, reports the drop, and g_active_channels keeps its size.
C7_VoiceExhaustion ==
    (last.op = "play_note_with_limiter" /\ last.full) =>
        /\ \A k \in 1..Len(last.out) : last.out[k].ev # "play"
        /\ \E k \in 1..Len(last.out) : last.out[k].ev = "warning"
        /\ Len(g_active_channels) = last.size_before

\* C12: a trigger made with n tracked voices and a free channel starts a
\* voice whose volume uses limiter_factor = 1 when n <= LIMITER_THRESHOLD and
\* sqrt(LIMITER_THRESHOLD / n) when n is above it, that is
\* limiter_factor^2 * n = LIMITER_THRESHOLD.
C12_LimiterFactor ==
    (last.op = "play_note_with_limiter" /\ ~last.full) =>
        \E k \in 1..Len(last.out) :
            /\ last.out[k].ev = "play"
            /\ LET n == last.size_before
                   f == last.out[k].volume.limiter_sq
               IN  /\ n <= LIMITER_THRESHOLD => f[1] = f[2]
                   /\ n > LIMITER_THRESHOLD => f[1] * n = LIMITER_THRESHOLD * f[2]

\* C10: for every pitch code p in 0..127, midi_to_note_name(p) is
\* NOTE_NAMES[p mod 12] followed by the octave number (p div 12) - 1.
C10_PitchNaming ==
    (last.op = "midi_to_note_name" /\ last.arg \in 0..127) =>
        last.ret = NOTE_NAMES[(last.arg % 12) + 1] \o Str((last.arg \div 12) - 1)

(***************************************************************************)
(* Properties of the key-press dispatcher (SpecKeys).                      *)
(***************************************************************************)
\* the note name the TEXTINPUT handler looks up for a letter, None for a
\* letter that is in neither dict
TypedName(text) ==
    IF InDict(LEFT_LETTERS, text) THEN DictLookup(LEFT_LETTERS, left_oct, text)
    ELSE IF InDict(RIGHT_LETTERS, text) THEN DictLookup(RIGHT_LETTERS, right_oct, text)
    ELSE None

\* C11: for every integer pitch below 0 or above 127, midi_to_note_name
\* returns None: it does not raise and does not name a wrapped-around note.
C11_InvalidPitchAbsent ==
    (last.op = "midi_to_note_name" /\ (last.arg < 0 \/ last.arg > 127)) =>
        last.ret = None

\* the function was called with the first pitch above the range, 128, which
\* a wrap-around would name like pitch 8
C11_Witness ==
    /\ last.op = "midi_to_note_name"
    /\ last.arg = 128
    /\ last.ret = None

(***************************************************************************)
(* Properties of the functions as their docstrings prescribe them          *)
(* (SpecDoc).                                                              *)
(***************************************************************************)
\* the sign and the square of limiter_factor * velocity, over the denominator
\* of limiter_factor^2
SignedSq(vol) ==
    LET v == vol.velocity_factor[1]
    IN  (IF v < 0 THEN 0 - 1 ELSE 1) * vol.limiter_sq[1] * v * v

\* a <= b for two volumes with the same base volume and the same denominator
\* of velocity_factor
VolumeLeq(a, b) ==
    /\ a.base = b.base
    /\ a.velocity_factor[2] = b.velocity_factor[2]
    /\ SignedSq(a) * b.limiter_sq[2] <= SignedSq(b) * a.limiter_sq[2]

CountInputs == {Len(q) : q \in ActiveInputs}

InBaseRange(vol) ==
    /\ vol.base = BASE_NOTE_VOLUME
    /\ vol.velocity_factor[1] >= 0
    /\ vol.limiter_sq[1] * vol.velocity_factor[1] * vol.velocity_factor[1]
           <= vol.limiter_sq[2] * vol.velocity_factor[2] * vol.velocity_factor[2]

ClampVelocity(v) == IF v < 0 THEN 0 ELSE IF v > 127 THEN 127 ELSE v

\* the volume of a started voice with velocity v in place of its own
WithVelocity(vol, v) == [vol EXCEPT !.velocity_factor = <<v, 127>>]

RECURSIVE SumOfDeltas(_, _)
SumOfDeltas(msgs, i) == IF i = 0 THEN 0 ELSE SumOfDeltas(msgs, i - 1) + msgs[i].time

\* the 1-based positions, in file order, of the messages that are triggers
TriggerPositions(msgs) ==
    LET IsTrigger(i) == /\ msgs[i].type = "note_on"
                        /\ msgs[i].velocity > 0
                        /\ msgs[i].note \in FIRST_KEY..LAST_KEY
    IN  SelectSeq([i \in 1..Len(msgs) |-> i], IsTrigger)

\* the key of a pitch: its colour and its rank among the keys of that colour
KeyOfPitch(p) ==
    <<Cardinality({q \in FIRST_KEY..(p - 1) : IsSharp(q) = IsSharp(p)}),
      IF IsSharp(p) THEN "black" ELSE "white">>

C14_OctaveRange ==
    [][/\ left_oct' \in MIN_OCT..MAX_OCT
       /\ right_oct' \in MIN_OCT..MAX_OCT
       /\ (last'.op = "arrow" /\ last'.key \in {"K_RIGHT", "K_LEFT"}) =>
              left_oct' = left_oct
       /\ (last'.op = "arrow" /\ last'.key \in {"K_UP", "K_DOWN"}) =>
              right_oct' = right_oct]_vars

\* K_DOWN was pressed with the left hand at octave 0 and K_RIGHT had brought
\* the right hand to octave 8: the press changed nothing
C14_Witness ==
    /\ last.op = "arrow" /\ last.key = "K_DOWN" /\ ~last.moved
    /\ left_oct = MIN_OCT
    /\ right_oct = MAX_OCT

InCatalog(name) == InSeq(white_notes, name) \/ InSeq(black_labels, name)

\* C8: a letter key whose note name is not in the white / black catalog
\* triggers no sound and raises no error; the main loop keeps running.
C8_UnknownNoteIgnored ==
    (last.op = "text" /\ TypedName(last.text) # None /\ ~InCatalog(TypedName(last.text))) =>
        /\ ~last.raised
        /\ last.out = <<>>
        /\ run = "running"

====
